---- MODULE Spec2Model ----
(***************************************************************************)
(* A model of the Halide-to-COLi text generator, src/src/CodeGen_Coli.cpp. *)
(*                                                                         *)
(* The generator is a recursive visitor.  One action models one handler    *)
(* (constructor, destructor, one visit(...) per statement kind); the       *)
(* recursion is kept on an explicit continuation stack `work`, so that the *)
(* generator state can be observed between two nodes.  The statement       *)
(* handed to print(Stmt) is an input of the handler that receives it: its  *)
(* kind and fields are drawn when the node is visited.  Expressions are    *)
(* small concrete trees, printed by recursive operators.  Names and the    *)
(* emitted text are strings; the output stream is the sequence of the      *)
(* chunks written to it.                                                   *)
(***************************************************************************)
EXTENDS Integers, Sequences, FiniteSets, TLC

\* Bound of the model: declared buffers plus visited statement nodes.
MaxSize == 4
\* Bound of the sanitizer's specification: the longest identifier.
MaxNameLen == 3
\* Bound of the loop-dimension stack's specification: its greatest depth.
MaxDims == 2
\* Bound of the loop-bound specification: the LetStmts around the For.
MaxLets == 4

VARIABLES
    pc,                 \* "start", "traverse", "finalized" or "aborted"
    func,               \* CodeGen_Coli::func, the pipeline's name
    stream,             \* IRPrinter::stream, the chunks written so far
    indent,             \* IRPrinter::indent
    scope,              \* Scope<Expr> scope: name -> stack of expressions
    loop_dims,          \* vector<Loop> loop_dims
    output_buffers,     \* set<string>
    input_buffers,      \* set<string>
    temporary_buffers,  \* set<string>
    computation_list,   \* set<string>
    constant_list,      \* set<string>
    err,                \* the error report that ended the translation
    work,               \* the visitor's call stack: what is still to run
    size,               \* buffers declared plus statement nodes visited
    last,               \* the handler entered last, with its arguments
    script,             \* how much of the end-to-end example the run has followed
    call                \* a member called on its own: arguments and result

cgVars == <<pc, func, stream, indent, scope, loop_dims, output_buffers, input_buffers,
            temporary_buffers, computation_list, constant_list, err, work, size, last, script>>
vars == <<cgVars, call>>

-----------------------------------------------------------------------------
(* Characters and the name sanitizer.                                      *)

Lower == {"a","b","c","d","e","f","g","h","i","j","k","l","m",
          "n","o","p","q","r","s","t","u","v","w","x","y","z"}
Upper == {"A","B","C","D","E","F","G","H","I","J","K","L","M",
          "N","O","P","Q","R","S","T","U","V","W","X","Y","Z"}
Digit == {"0","1","2","3","4","5","6","7","8","9"}

isalpha(c) == c \in Lower \cup Upper
isalnum(c) == isalpha(c) \/ c \in Digit

\* name[i] of the C++ string, 0-based; name[size()] is the terminating '\0'
CharAt(name, i) == IF i < Len(name) THEN SubSeq(name, i + 1, i + 1) ELSE "\\0"

\* One iteration of print_name's loop: what is written for name[i].
print_name_char(c) ==
    IF c = "." THEN "_"
    ELSE IF c = "$" THEN "__"
    ELSE IF c # "_" /\ ~isalnum(c) THEN "___"
    ELSE c

RECURSIVE print_name_loop(_, _, _)
print_name_loop(name, i, oss) ==
    IF i < Len(name)
    THEN print_name_loop(name, i + 1, oss \o print_name_char(CharAt(name, i)))
    ELSE oss

\* A sanitizer that prefixes every name, whatever its first character.
print_name_prefix_always(name) == "_"

print_name_prefix(name) == IF isalpha(CharAt(name, 0)) THEN "_" ELSE ""

print_name(name) == print_name_loop(name, 0, print_name_prefix(name))

-----------------------------------------------------------------------------
(* Types.                                                                  *)

Int32 == [code |-> "int", bits |-> 32]
UInt8 == [code |-> "uint", bits |-> 8]
Float32 == [code |-> "float", bits |-> 32]
Float16 == [code |-> "float", bits |-> 16]
Bool1 == [code |-> "bool", bits |-> 1]
Handle64 == [code |-> "handle", bits |-> 64]

NoError == [tier |-> "none", msg |-> ""]
UserError(m) == [tier |-> "user", msg |-> m]
InternalError(m) == [tier |-> "internal", msg |-> m]

\* The result of a function that returns text or reports an error.
Text(t) == [text |-> t, err |-> NoError]
Fail(t, e) == [text |-> t, err |-> e]

halide_type_to_coli_type_str(type) ==
    IF type.code = "uint" THEN
        Text(IF type.bits = 8 THEN "coli::p_uint8"
             ELSE IF type.bits = 16 THEN "coli::p_uint16"
             ELSE IF type.bits = 32 THEN "coli::p_uint32"
             ELSE "coli::p_uint64")
    ELSE IF type.code = "int" THEN
        Text(IF type.bits = 8 THEN "coli::p_int8"
             ELSE IF type.bits = 16 THEN "coli::p_int16"
             ELSE IF type.bits = 32 THEN "coli::p_int32"
             ELSE "coli::p_int64")
    ELSE IF type.code = "float" THEN
        IF type.bits = 32 THEN Text("coli::p_float32")
        ELSE IF type.bits = 64 THEN Text("coli::p_float64")
        ELSE Fail("", UserError("Floats other than 32 and 64 bits are not suppored in Coli.\n"))
    ELSE IF type.code = "bool" THEN Text("coli::p_boolean")
    ELSE Fail("", UserError("Halide type cannot be translated to Coli type.\n"))

-----------------------------------------------------------------------------
(* Expressions.  The node kinds kept are the ones whose handlers differ:   *)
(* a literal, a variable, one infix operator (Add; the other binary        *)
(* operators are printed the same way), a call, a let, and two of the      *)
(* unsupported kinds (StringImm, Cast).  Variables are plain: none has a   *)
(* param or an image.                                                      *)

IntImm(v) == [node |-> "IntImm", type |-> Int32, value |-> v]
Var(n) == [node |-> "Variable", name |-> n]
Add(x, y) == [node |-> "Add", a |-> x, b |-> y]
Call(n, as, ct) == [node |-> "Call", name |-> n, args |-> as, call_type |-> ct]
StringImm(v) == [node |-> "StringImm", value |-> v]
Let(n, v, b) == [node |-> "Let", name |-> n, value |-> v, body |-> b]
Cast(t, v) == [node |-> "Cast", type |-> t, value |-> v]

RECURSIVE type_of(_)
type_of(e) ==
    CASE e.node = "IntImm" -> e.type
      [] e.node = "Variable" -> Int32
      [] e.node = "Add" -> type_of(e.a)
      [] e.node = "Call" -> Int32
      [] e.node = "StringImm" -> Handle64
      [] e.node = "Let" -> type_of(e.body)
      [] e.node = "Cast" -> e.type

RECURSIVE is_const(_)
is_const(e) ==
    CASE e.node \in {"IntImm", "StringImm"} -> TRUE
      [] e.node = "Cast" -> is_const(e.value)
      [] OTHER -> FALSE

is_zero(e) == e.node = "IntImm" /\ e.value = 0

\* to_string(const vector<T> &): the elements are given as their texts.
RECURSIVE to_string_loop(_, _, _)
to_string_loop(v, i, ss) ==
    IF i < Len(v)
    THEN to_string_loop(v, i + 1,
             ss \o v[i + 1] \o (IF i # Len(v) - 1 THEN ", " ELSE ""))
    ELSE ss

to_string(v) == to_string_loop(v, 0, "[") \o "]"

\* operator<<(ostream &, Expr): the host printer's text of an expression.
RECURSIVE ExprToString(_)
ExprToString(e) ==
    CASE e.node = "IntImm" -> ToString(e.value)
      [] e.node = "Variable" -> e.name
      [] e.node = "Add" -> "(" \o ExprToString(e.a) \o " + " \o ExprToString(e.b) \o ")"
      [] e.node = "Call" ->
            e.name \o "(" \o
            SubSeq(to_string([i \in 1..Len(e.args) |-> ExprToString(e.args[i])]),
                   2, Len(to_string([i \in 1..Len(e.args) |-> ExprToString(e.args[i])])) - 1)
            \o ")"
      [] e.node = "StringImm" -> "\"" \o e.value \o "\""
      [] e.node = "Let" ->
            "(let " \o e.name \o " = " \o ExprToString(e.value) \o " in "
            \o ExprToString(e.body) \o ")"
      [] e.node = "Cast" -> e.type.code \o ToString(e.type.bits) \o "(" \o ExprToString(e.value) \o ")"

ExprsToString(v) == to_string([i \in 1..Len(v) |-> ExprToString(v[i])])

\* substitute(const map<string, Expr> &, Expr): all variables at once.
RECURSIVE substitute(_, _)
substitute(replacements, e) ==
    CASE e.node = "Variable" ->
            IF e.name \in DOMAIN replacements THEN replacements[e.name] ELSE e
      [] e.node = "Add" ->
            Add(substitute(replacements, e.a), substitute(replacements, e.b))
      [] e.node = "Call" ->
            Call(e.name, [i \in 1..Len(e.args) |-> substitute(replacements, e.args[i])],
                 e.call_type)
      [] e.node = "Let" ->
            Let(e.name, substitute(replacements, e.value),
                substitute([n \in DOMAIN replacements \ {e.name} |-> replacements[n]],
                           e.body))
      [] e.node = "Cast" -> Cast(e.type, substitute(replacements, e.value))
      [] OTHER -> e

\* substitute_in_all_lets: every expression-level let is inlined.
RECURSIVE substitute_in_all_lets(_)
substitute_in_all_lets(e) ==
    CASE e.node = "Let" ->
            substitute([n \in {e.name} |-> substitute_in_all_lets(e.value)],
                       substitute_in_all_lets(e.body))
      [] e.node = "Add" ->
            Add(substitute_in_all_lets(e.a), substitute_in_all_lets(e.b))
      [] e.node = "Call" ->
            Call(e.name, [i \in 1..Len(e.args) |-> substitute_in_all_lets(e.args[i])],
                 e.call_type)
      [] e.node = "Cast" -> Cast(e.type, substitute_in_all_lets(e.value))
      [] OTHER -> e

\* simplify: constant folding of the kept operator.
RECURSIVE simplify(_)
simplify(e) ==
    CASE e.node = "Add" ->
            LET x == simplify(e.a)
                y == simplify(e.b)
            IN  IF x.node = "IntImm" /\ y.node = "IntImm" THEN IntImm(x.value + y.value)
                ELSE IF is_zero(y) THEN x
                ELSE IF is_zero(x) THEN y
                ELSE Add(x, y)
      [] e.node = "Call" ->
            Call(e.name, [i \in 1..Len(e.args) |-> simplify(e.args[i])], e.call_type)
      [] e.node = "Cast" -> Cast(e.type, simplify(e.value))
      [] OTHER -> e

\* NormalizeVariableName on an expression: Variable and Let names are
\* passed through print_name, everything else is rebuilt unchanged.
RECURSIVE NormalizeExpr(_)
NormalizeExpr(e) ==
    CASE e.node = "Variable" -> Var(print_name(e.name))
      [] e.node = "Let" ->
            Let(print_name(e.name), NormalizeExpr(e.value), NormalizeExpr(e.body))
      [] e.node = "Add" -> Add(NormalizeExpr(e.a), NormalizeExpr(e.b))
      [] e.node = "Call" ->
            Call(e.name, [i \in 1..Len(e.args) |-> NormalizeExpr(e.args[i])], e.call_type)
      [] e.node = "Cast" -> Cast(e.type, NormalizeExpr(e.value))
      [] OTHER -> e

NormalizeExprs(v) == [i \in 1..Len(v) |-> NormalizeExpr(v[i])]

\* Whether an expression still holds a node of the given kind.
RECURSIVE HasNode(_, _)
HasNode(e, kind) ==
    \/ e.node = kind
    \/ e.node = "Add" /\ (HasNode(e.a, kind) \/ HasNode(e.b, kind))
    \/ e.node = "Call" /\ \E i \in 1..Len(e.args) : HasNode(e.args[i], kind)
    \/ e.node = "Let" /\ (HasNode(e.value, kind) \/ HasNode(e.body, kind))
    \/ e.node = "Cast" /\ HasNode(e.value, kind)

-----------------------------------------------------------------------------
(* The expression handlers.  Each returns the text it wrote and the error  *)
(* that stopped it, if any; text written before the error stays written.   *)

visit_IntImm(op) ==
    Text("coli::expr("
         \o (IF op.type.bits = 8 THEN "(int8_t)"
             ELSE IF op.type.bits = 16 THEN "(int16_t)"
             ELSE IF op.type.bits = 32 THEN "(int32_t)"
             ELSE "")
         \o ToString(op.value) \o ")")

\* A StringImm handler that prints the literal instead of reporting it.
visit_StringImm_quoted(op) == Text("\"" \o op.value \o "\"")

visit_StringImm(op) ==
    Fail("", UserError("Conversion of StringImm to COLi is not supported.\n"))

visit_Cast(op) ==
    Fail("", UserError("Conversion of Cast to COLi is not currently supported.\n"))

visit_Let(op) ==
    Fail("", UserError("Should not have encountered Let expr since we've called substitute_in_all_lets.\n"))

visit_Variable(op, constants) ==
    IF op.name \in constants
    THEN Text(op.name \o "(0)")
    ELSE Text("coli::idx(\"" \o op.name \o "\")")

\* Text written, then a callee's result: the callee's text follows, and
\* its error, if any, ends the handler.
Then(t, r) == [text |-> t \o r.text, err |-> r.err]
\* A result, then more text: written only when the result is no error.
Also(r, t) == IF r.err = NoError THEN [text |-> r.text \o t, err |-> NoError] ELSE r
\* A result, then a second result computed only when the first is no error.
Seq2(r, q) == IF r.err = NoError THEN Then(r.text, q) ELSE r

RECURSIVE print_Expr(_, _, _)
RECURSIVE visit_Call_args(_, _, _, _)

\* An Add handler that prints the sum in prefix form.
visit_Add_prefix(op, constants, computations) ==
    Also(Seq2(Also(Then("add(", print_Expr(op.a, constants, computations)), ", "),
              print_Expr(op.b, constants, computations)),
         ")")

visit_Add(op, constants, computations) ==
    Also(Seq2(Also(Then("(", print_Expr(op.a, constants, computations)), " + "),
              print_Expr(op.b, constants, computations)),
         ")")

CallTypeSupported(op) == op.call_type \in {"Halide", "Image"}
\* A lookup of the callee that always finds it.
CallTargetKnown_always(op, computations) == TRUE
CallTargetKnown(op, computations) == op.name \in computations

visit_Call(op, constants, computations) ==
    IF ~CallTypeSupported(op)
    THEN Fail("", UserError("Only handle call to halide func or image for now.\n"))
    ELSE IF ~CallTargetKnown(op, computations)
    THEN Fail("", InternalError("Call to computation that does not exist.\n"))
    ELSE Also(Then(op.name \o "(", visit_Call_args(op, 0, constants, computations)), ")")

visit_Call_args(op, i, constants, computations) ==
    IF i < Len(op.args)
    THEN Seq2(Also(print_Expr(op.args[i + 1], constants, computations),
                   IF i < Len(op.args) - 1 THEN ", " ELSE ""),
              visit_Call_args(op, i + 1, constants, computations))
    ELSE Text("")

\* e.accept(this)
accept_Expr(e, constants, computations) ==
    CASE e.node = "IntImm" -> visit_IntImm(e)
      [] e.node = "Variable" -> visit_Variable(e, constants)
      [] e.node = "Add" -> visit_Add(e, constants, computations)
      [] e.node = "Call" -> visit_Call(e, constants, computations)
      [] e.node = "StringImm" -> visit_StringImm(e)
      [] e.node = "Let" -> visit_Let(e)
      [] e.node = "Cast" -> visit_Cast(e)

\* CodeGen_Coli::print(Expr)
print_Expr(e, constants, computations) ==
    accept_Expr(substitute_in_all_lets(e), constants, computations)

-----------------------------------------------------------------------------
(* The generator's members, as one record the handlers transform.          *)

headers ==
    "#include <isl/set.h>\n" \o
    "#include <isl/union_map.h>\n" \o
    "#include <isl/union_set.h>\n" \o
    "#include <isl/ast_build.h>\n" \o
    "#include <isl/schedule.h>\n" \o
    "#include <isl/schedule_node.h>\n\n" \o
    "#include <coli/debug.h>\n" \o
    "#include <coli/core.h>\n\n" \o
    "#include <string.h>\n" \o
    "#include <Halide.h>\n" \o
    "#include \"halide_image_io.h\"\n"

tab_size == 4

RECURSIVE Spaces(_)
Spaces(n) == IF n <= 0 THEN "" ELSE " " \o Spaces(n - 1)

\* IRPrinter::do_indent: the text it writes
do_indent(st) == Spaces(st.indent)

\* stream << ...: one chunk
Write(st, t) == [st EXCEPT !.stream = Append(@, t)]
\* user_error / internal_assert failing: the report that ends the run
Raise(st, e) == [st EXCEPT !.err = e]
Ok(st) == st.err = NoError

\* Scope<Expr>: a name is in the domain while its stack is not empty.
scope_contains(sc, n) == n \in DOMAIN sc
scope_push(sc, n, v) ==
    [k \in DOMAIN sc \cup {n} |->
        IF k = n THEN (IF n \in DOMAIN sc THEN Append(sc[n], v) ELSE <<v>>) ELSE sc[k]]
scope_pop(sc, n) ==
    IF Len(sc[n]) = 1
    THEN [k \in DOMAIN sc \ {n} |-> sc[k]]
    ELSE [sc EXCEPT ![n] = SubSeq(@, 1, Len(@) - 1)]
scope_get(sc, n) == sc[n][Len(sc[n])]
ScopeLookupError(n) == InternalError("Symbol '" \o n \o "' not found")

push_loop_dim(st, name, min, extent) ==
    [st EXCEPT !.loop_dims = Append(@, [name |-> name, min |-> min, extent |-> extent])]

pop_loop_dim(st) ==
    [st EXCEPT !.loop_dims = SubSeq(@, 1, Len(@) - 1)]

\* get_loop_bound_vars: the vector relevant_exprs it collects
\* A collection of the bounds that takes the extent of a dimension before
\* its min.
RECURSIVE relevant_exprs_extent_first(_, _, _)
relevant_exprs_extent_first(dims, i, acc) ==
    IF i < Len(dims)
    THEN LET withExtent == IF ~is_const(dims[i + 1].extent)
                           THEN Append(acc, dims[i + 1].extent) ELSE acc
             withMin == IF ~is_const(dims[i + 1].min)
                        THEN Append(withExtent, dims[i + 1].min) ELSE withExtent
         IN  relevant_exprs_extent_first(dims, i + 1, withMin)
    ELSE acc

RECURSIVE relevant_exprs(_, _, _)
relevant_exprs(dims, i, acc) ==
    IF i < Len(dims)
    THEN LET withMin == IF ~is_const(dims[i + 1].min)
                        THEN Append(acc, dims[i + 1].min) ELSE acc
             withExtent == IF ~is_const(dims[i + 1].extent)
                           THEN Append(withMin, dims[i + 1].extent) ELSE withMin
         IN  relevant_exprs(dims, i + 1, withExtent)
    ELSE acc

loop_bound_exprs(dims) == relevant_exprs(dims, 0, <<>>)

get_loop_bound_vars(dims) ==
    IF loop_bound_exprs(dims) = <<>> THEN "" ELSE ExprsToString(loop_bound_exprs(dims))

\* Loop::to_string: the range predicate of one dimension
Loop_to_string(l) ==
    ExprToString(l.min) \o " <= " \o l.name \o " < "
    \o ExprToString(l.min) \o " + " \o ExprToString(l.extent)

RECURSIVE get_loop_bounds_loop(_, _, _)
get_loop_bounds_loop(dims, i, ss) ==
    IF i < Len(dims)
    THEN get_loop_bounds_loop(dims, i + 1,
             ss \o Loop_to_string(dims[i + 1])
                \o (IF i # Len(dims) - 1 THEN ") and (" ELSE ""))
    ELSE ss

get_loop_bounds(dims) == get_loop_bounds_loop(dims, 0, "(") \o ")"

-----------------------------------------------------------------------------
(* The constructor.                                                        *)

NewGenerator(pipeline_name) ==
    [func |-> pipeline_name, stream |-> <<>>, indent |-> 0, scope |-> <<>>,
     loop_dims |-> <<>>, output_buffers |-> {}, input_buffers |-> {},
     temporary_buffers |-> {}, computation_list |-> {}, constant_list |-> {},
     err |-> NoError]

ctor_preamble(st) ==
    LET s1 == Write(Write(Write(Write(st, headers \o "\n\n"),
                    "using namespace coli;\n\n"),
                    "int main(int argc, char **argv)\n"),
                    "{\n")
        s2 == [s1 EXCEPT !.indent = @ + tab_size]
    IN  Write(Write(Write(s2,
            do_indent(s2) \o "// Set default coli options.\n"),
            do_indent(s2) \o "global::set_default_coli_options();\n\n"),
            do_indent(s2) \o "coli::function " \o s2.func \o "(\"" \o s2.func \o "\")" \o ";\n")

\* "coli::buffer <name>(...)": the declaration up to the element type
buffer_decl_head(st, buffer_name, rank, sizes) ==
    do_indent(st) \o "coli::buffer " \o buffer_name \o "(\"" \o buffer_name \o "\", "
    \o ToString(rank) \o ", " \o sizes \o ", "

\* Writes a buffer declaration; the element type may be unsupported, and
\* then the text before it is all that was written.
declare_buffer(st, buffer_name, rank, sizes, type, role) ==
    LET t == halide_type_to_coli_type_str(type)
        head == buffer_decl_head(st, buffer_name, rank, sizes)
    IN  IF t.err # NoError
        THEN Raise(Write(st, head), t.err)
        ELSE Write(st, head \o t.text \o ", NULL, coli::" \o role \o ", "
                       \o "&" \o st.func \o ");\n")

\* the inner loop over an output's dimensions: sizes text and scope pushes
RECURSIVE ctor_output_dims(_, _, _)
ctor_output_dims(f, i, acc) ==
    IF i < Len(f.extents)
    THEN LET min_str == print_name(f.name \o ".min." \o ToString(i))
             extent_str == print_name(f.name \o ".extent." \o ToString(i))
         IN  ctor_output_dims(f, i + 1,
                 [sizes |-> acc.sizes \o "coli::expr(" \o ToString(f.extents[i + 1]) \o ")"
                            \o (IF i # Len(f.extents) - 1 THEN ", " ELSE ""),
                  scope |-> scope_push(scope_push(acc.scope, min_str, IntImm(0)),
                                       extent_str, IntImm(f.extents[i + 1]))])
    ELSE acc

ctor_output(f, st) ==
    LET d == ctor_output_dims(f, 0, [sizes |-> "{", scope |-> st.scope])
        s1 == [st EXCEPT !.scope = d.scope]
        buffer_name == "buff_" \o f.name
        s2 == declare_buffer(s1, buffer_name, Len(f.extents), d.sizes \o "}", f.type, "a_output")
    IN  IF Ok(s2) THEN [s2 EXCEPT !.output_buffers = @ \cup {buffer_name}] ELSE s2

RECURSIVE ctor_outputs(_, _, _)
ctor_outputs(outputs, k, st) ==
    IF Ok(st) /\ k < Len(outputs)
    THEN ctor_outputs(outputs, k + 1, ctor_output(outputs[k + 1], st))
    ELSE st

\* the inner loop over an input's dimensions
RECURSIVE ctor_input_dims(_, _, _)
ctor_input_dims(inp, i, acc) ==
    IF i < Len(inp.extents)
    THEN ctor_input_dims(inp, i + 1,
             [sizes |-> acc.sizes \o "coli::expr(" \o ToString(inp.extents[i + 1]) \o ")"
                        \o (IF i # Len(inp.extents) - 1 THEN ", " ELSE ""),
              dummy_dims |-> Append(acc.dummy_dims, "i" \o ToString(i)),
              st |-> push_loop_dim(acc.st, "i" \o ToString(i), IntImm(0),
                                   IntImm(inp.extents[i + 1]))])
    ELSE acc

\* for (i < buffer_extents.size()) pop_loop_dim();
RECURSIVE ctor_input_pops(_, _)
ctor_input_pops(n, st) ==
    IF n > 0 THEN ctor_input_pops(n - 1, pop_loop_dim(st)) ELSE st

ctor_input(inp, st) ==
    LET d == ctor_input_dims(inp, 0, [sizes |-> "{", dummy_dims |-> <<>>, st |-> st])
        buffer_name == "buff_" \o inp.name
        s1 == declare_buffer(d.st, buffer_name, Len(inp.extents), d.sizes \o "}",
                             inp.type, "a_input")
        s2 == [s1 EXCEPT !.input_buffers = @ \cup {buffer_name}]
        dims_str == to_string(d.dummy_dims)
        symbolic_str == get_loop_bound_vars(s2.loop_dims)
        iter_space_str ==
            IF symbolic_str # ""
            THEN get_loop_bound_vars(s2.loop_dims) \o "->{" \o inp.name \o dims_str \o ": "
                 \o get_loop_bounds(s2.loop_dims) \o "}"
            ELSE "{" \o inp.name \o dims_str \o ": " \o get_loop_bounds(s2.loop_dims) \o "}"
        access_str == "{" \o inp.name \o dims_str \o "->" \o "buff_" \o inp.name
                      \o dims_str \o "}"
        s3 == Write(s2, do_indent(s2) \o "coli::computation " \o inp.name \o "(\""
                        \o iter_space_str \o "\", " \o "expr(), false, "
                        \o halide_type_to_coli_type_str(inp.type).text
                        \o ", &" \o s2.func \o ");\n")
        s4 == Write(Write(s3, do_indent(s3) \o inp.name \o ".set_access(\"" \o access_str
                              \o "\");\n"),
                    "\n")
        s5 == [s4 EXCEPT !.computation_list = @ \cup {inp.name}]
    IN  IF Ok(s1) THEN ctor_input_pops(Len(inp.extents), s5) ELSE s1

RECURSIVE ctor_inputs(_, _, _)
ctor_inputs(inputs, k, st) ==
    IF Ok(st) /\ k < Len(inputs)
    THEN ctor_inputs(inputs, k + 1, ctor_input(inputs[k + 1], st))
    ELSE st

\* CodeGen_Coli::CodeGen_Coli
CodeGen_Coli(pipeline_name, outputs, inputs) ==
    ctor_inputs(inputs, 0,
        ctor_outputs(outputs, 0, ctor_preamble(NewGenerator(pipeline_name))))

-----------------------------------------------------------------------------
(* The destructor.                                                         *)

\* The buffer names the model uses, in the order of std::set<string>.
BufferOrder == <<"buff_f", "buff_g", "buff_in", "buff_in2", "buff_t">>

\* begin() .. end() of a std::set<string>
Iterate(S) == SelectSeq(BufferOrder, LAMBDA n : n \in S)

\* the first loop of the destructor, over output_buffers
RECURSIVE dtor_outputs(_, _, _)
dtor_outputs(its, i, acc) ==
    IF i < Len(its)
    THEN dtor_outputs(its, i + 1,
             [count |-> acc.count + 1,
              text |-> acc.text \o "&" \o its[i + 1]
                       \o (IF i + 1 # Len(its) THEN ", " ELSE "")])
    ELSE acc

\* A second loop that never writes the separator between the two lists.
RECURSIVE dtor_inputs_no_lead(_, _, _)
dtor_inputs_no_lead(its, i, acc) ==
    IF i < Len(its)
    THEN dtor_inputs_no_lead(its, i + 1,
             [count |-> acc.count,
              start |-> acc.start,
              text |-> acc.text \o "&" \o its[i + 1]
                       \o (IF i + 1 # Len(its) THEN ", " ELSE "")])
    ELSE acc

\* the second loop, over input_buffers
RECURSIVE dtor_inputs(_, _, _)
dtor_inputs(its, i, acc) ==
    IF i < Len(its)
    THEN dtor_inputs(its, i + 1,
             [count |-> acc.count,
              start |-> IF acc.count > 0 /\ acc.start THEN FALSE ELSE acc.start,
              text |-> acc.text
                       \o (IF acc.count > 0 /\ acc.start THEN ", " ELSE "")
                       \o "&" \o its[i + 1]
                       \o (IF i + 1 # Len(its) THEN ", " ELSE "")])
    ELSE acc

buffers_stream(st) ==
    LET o == dtor_outputs(Iterate(st.output_buffers), 0, [count |-> 0, text |-> "{"])
        n == dtor_inputs(Iterate(st.input_buffers), 0,
                         [count |-> o.count, start |-> TRUE, text |-> o.text])
    IN  n.text \o "}"

\* The five calls of the epilogue, in the order written.
set_arguments_call(st) == st.func \o ".set_arguments(" \o buffers_stream(st) \o ");\n"
finalization_calls(st) ==
    << st.func \o ".gen_isl_ast();\n",
       st.func \o ".gen_halide_stmt();\n",
       st.func \o ".dump_halide_stmt();\n",
       st.func \o ".gen_halide_obj(\"build/generated_" \o st.func \o "_test.o\");\n" >>

RECURSIVE dtor_calls(_, _, _)
dtor_calls(calls, i, st) ==
    IF i < Len(calls)
    THEN dtor_calls(calls, i + 1, Write(st, do_indent(st) \o calls[i + 1]))
    ELSE st

\* CodeGen_Coli::~CodeGen_Coli
Destroy_CodeGen_Coli(st) ==
    LET s1 == Write(st, "\n")
        s2 == Write(s1, do_indent(s1) \o set_arguments_call(s1))
        s3 == dtor_calls(finalization_calls(s2), 0, s2)
        s4 == [s3 EXCEPT !.indent = @ - tab_size]
    IN  Write(s4, do_indent(s4) \o "}\n\n")

-----------------------------------------------------------------------------
(* The statement handlers, as transformations of the generator's members.  *)
(* A handler's argument is the node after NormalizeVariableName and after  *)
(* print(Stmt)'s substitute_in_all_lets.  What a handler does after its    *)
(* recursive print(op->body) returns is a frame left on `work`.            *)

prepare(e) == substitute_in_all_lets(NormalizeExpr(e))
prepare_all(v) == [i \in 1..Len(v) |-> prepare(v[i])]

\* NormalizeVariableName::visit(const For *)
normalize_For(op) ==
    [name |-> print_name(op.name), min |-> prepare(op.min), extent |-> prepare(op.extent)]

\* NormalizeVariableName::visit(const LetStmt *)
normalize_LetStmt(op) ==
    [name |-> print_name(op.name), value |-> prepare(op.value)]

\* IRMutator's default visit of a Provide: the name is kept as it is
normalize_Provide(op) ==
    [name |-> op.name, args |-> prepare_all(op.args), values |-> prepare_all(op.values)]

\* IRMutator's default visit of a Realize
normalize_Realize(op) ==
    [name |-> op.name, types |-> op.types,
     bounds |-> [i \in 1..Len(op.bounds) |->
                    [min |-> prepare(op.bounds[i].min),
                     extent |-> prepare(op.bounds[i].extent)]]]

\* A redefinition test that never finds the name.
ConstantDefined_never(name, st) == FALSE

\* CodeGen_Coli::define_constant
ConstantDefined(name, st) == name \in st.constant_list

define_constant(name, val, st) ==
    IF ConstantDefined(name, st)
    THEN Raise(st, InternalError("Redefinition of lets is not supported right now.\n"))
    ELSE LET v == simplify(val)
             head == do_indent(st) \o "coli::constant " \o name \o "(\"" \o name \o "\", "
             r == print_Expr(v, st.constant_list, st.computation_list)
             t == halide_type_to_coli_type_str(type_of(v))
         IN  IF r.err # NoError THEN Raise(Write(st, head \o r.text), r.err)
             ELSE IF t.err # NoError THEN Raise(Write(st, head \o r.text \o ", "), t.err)
             ELSE [Write(st, head \o r.text \o ", " \o t.text
                             \o ", true, NULL, 0, &" \o st.func \o ");\n")
                   EXCEPT !.constant_list = @ \cup {name}]

\* visit(const For *): the replacements map built from the scope
for_replacements(sc, min_name, extent_name) ==
    [n \in {k \in DOMAIN sc : (k # min_name) \/ (k # extent_name)} |-> scope_get(sc, n)]

\* A resolution of the bounds that substitutes three times.
substitute_thrice(replacements, val) ==
    substitute(replacements, substitute(replacements, substitute(replacements, val)))

\* "Do it twice, to make sure we substitute in all variables properly"
substitute_twice(replacements, val) ==
    substitute(replacements, substitute(replacements, val))

\* A report of a bad loop bound in the user tier.
for_bound_report_user(m) == UserError(m)

\* internal_assert(min != NULL), internal_assert(extent != NULL): the report
for_bound_report(m) == InternalError(m)

ForMinIsVariable(op) == op.min.node = "Variable"
ForExtentIsVariable(op) == op.extent.node = "Variable"

\* visit(const For *), up to print(op->body)
visit_For(op, st) ==
    LET s1 == push_loop_dim(st, op.name, op.min, op.extent)
    IN  IF ~ForMinIsVariable(op)
        THEN Raise(s1, for_bound_report("Min value of a loop should have been a variable.\n"))
        ELSE IF ~ForExtentIsVariable(op)
        THEN Raise(s1, for_bound_report("Extent of a loop should have been a variable.\n"))
        ELSE IF ~scope_contains(s1.scope, op.min.name)
        THEN Raise(s1, ScopeLookupError(op.min.name))
        ELSE IF ~scope_contains(s1.scope, op.extent.name)
        THEN Raise(s1, ScopeLookupError(op.extent.name))
        ELSE
        LET replacements == for_replacements(s1.scope, op.min.name, op.extent.name)
            min_val == substitute_twice(replacements, scope_get(s1.scope, op.min.name))
            extent_val == substitute_twice(replacements, scope_get(s1.scope, op.extent.name))
            s2 == Write(s1, do_indent(s1) \o "// Define loop bounds for dimension \""
                            \o op.name \o "\".\n")
            s3 == define_constant(op.min.name, min_val, s2)
            s4 == IF Ok(s3) THEN define_constant(op.extent.name, extent_val, s3) ELSE s3
        IN  IF Ok(s4) THEN Write(s4, "\n") ELSE s4

\* visit(const LetStmt *), up to print(op->body)
visit_LetStmt(op, st) == [st EXCEPT !.scope = scope_push(@, op.name, op.value)]

\* A LetStmt handler that returns without popping its binding.
exit_LetStmt_keeps_binding(name, st) == st

\* visit(const LetStmt *), after print(op->body)
exit_LetStmt(name, st) == [st EXCEPT !.scope = scope_pop(@, name)]

\* visit(const ProducerConsumer *), up to print(op->body)
visit_ProducerConsumer(op, st) ==
    IF op.body_is_block
    THEN Raise(st, UserError("Does not currently handle update.\n"))
    ELSE IF ~(~op.is_producer \/ op.name \notin st.computation_list)
    THEN Raise(st, InternalError("Found another computation with the same name.\n"))
    ELSE st

\* visit(const ProducerConsumer *), after print(op->body)
exit_ProducerConsumer(old_loop_dims, st) == [st EXCEPT !.loop_dims = old_loop_dims]

\* visit(const For *), after print(op->body)
\* A For handler that returns without popping its dimension.
exit_For_keeps_dim(st) == st

exit_For(st) == pop_loop_dim(st)

\* A duplicate test that looks the buffer name up instead of the name.
ProvideDuplicate_by_buffer(op, st) == "buff_" \o op.name \in st.computation_list

\* visit(const Provide *): the checks, in the order made
ProvideDuplicate(op, st) == op.name \in st.computation_list
ProvideBufferAllocated(op, st) ==
    \/ "buff_" \o op.name \in st.temporary_buffers
    \/ "buff_" \o op.name \in st.output_buffers
ProvideArgsAreVariables(op) == \A i \in 1..Len(op.args) : op.args[i].node = "Variable"
ProvideSingleValue(op) == Len(op.values) = 1

provide_check(op, st) ==
    IF ProvideDuplicate(op, st)
    THEN InternalError("Duplicate computation is not currently supported.\n")
    ELSE IF ~ProvideBufferAllocated(op, st)
    THEN InternalError("The buffer should have been allocated previously.\n")
    ELSE IF ~ProvideArgsAreVariables(op)
    THEN UserError("Expect args of provide to be loop dims for now (doesn't currently handle update).\n")
    ELSE IF ~ProvideSingleValue(op)
    THEN UserError("Expect 1D store (no tuple) in the Provide node for now.\n")
    ELSE NoError

\* visit(const Provide *)
visit_Provide(op, st) ==
    IF provide_check(op, st) # NoError THEN Raise(st, provide_check(op, st))
    ELSE
    LET dims_str == ExprsToString(op.args)
        symbolic_str == get_loop_bound_vars(st.loop_dims)
        s1 == [st EXCEPT !.indent = @ + 5 * tab_size]
        line1 == do_indent(st) \o "coli::computation " \o op.name \o "(\""
                 \o (IF symbolic_str # ""
                     THEN get_loop_bound_vars(st.loop_dims) \o "->{" \o op.name \o dims_str
                          \o ": \"\n"
                     ELSE "{" \o op.name \o dims_str \o ": \"\n")
        line2 == do_indent(s1) \o "\"" \o get_loop_bounds(s1.loop_dims) \o "}\", \n"
        s2 == Write(Write(s1, line1), line2)
        r == print_Expr(op.values[1], s2.constant_list, s2.computation_list)
        t == halide_type_to_coli_type_str(type_of(op.values[1]))
        access_str == "{" \o op.name \o dims_str \o "->" \o "buff_" \o op.name
                      \o dims_str \o "}"
    IN  IF r.err # NoError THEN Raise(Write(s2, do_indent(s2) \o r.text), r.err)
        ELSE IF t.err # NoError
        THEN Raise(Write(s2, do_indent(s2) \o r.text \o ", true, "), t.err)
        ELSE
        LET s3 == Write(s2, do_indent(s2) \o r.text \o ", true, " \o t.text
                            \o ", &" \o s2.func \o ");\n")
            s4 == [s3 EXCEPT !.indent = @ - 5 * tab_size]
            s5 == Write(s4, do_indent(s4) \o op.name \o ".set_access(\"" \o access_str
                            \o "\");\n")
        IN  [s5 EXCEPT !.computation_list = @ \cup {op.name}]

\* visit(const Realize *): the checks, in the order made
RealizeDuplicate(op, st) == "buff_" \o op.name \in st.temporary_buffers
RealizeSameTypes(op) == \A i \in 2..Len(op.types) : op.types[i - 1] = op.types[i]
RealizeZeroMins(op) == \A i \in 1..Len(op.bounds) : is_zero(op.bounds[i].min)

realize_check(op, st) ==
    IF RealizeDuplicate(op, st)
    THEN UserError("Duplicate allocation (i.e. duplicate compute) is not currently supported.\n")
    ELSE IF ~RealizeSameTypes(op)
    THEN UserError("Realize node should have the same types for all dimensions for now.\n")
    ELSE IF ~RealizeZeroMins(op)
    THEN UserError("Bound of realize node should start from 0 for now.\n")
    ELSE NoError

\* the loop printing the extents of a Realize
RECURSIVE realize_extents(_, _, _)
realize_extents(op, i, st) ==
    IF i < Len(op.bounds)
    THEN Seq2(Also(print_Expr(op.bounds[i + 1].extent, st.constant_list, st.computation_list),
                   IF i # Len(op.bounds) - 1 THEN ", " ELSE ""),
              realize_extents(op, i + 1, st))
    ELSE Text("")

\* visit(const Realize *), up to print(op->body)
visit_Realize(op, st) ==
    IF realize_check(op, st) # NoError THEN Raise(st, realize_check(op, st))
    ELSE
    LET buffer_name == "buff_" \o op.name
        head == do_indent(st) \o do_indent(st) \o "coli::buffer " \o buffer_name \o "(\""
                \o buffer_name \o "\", " \o ToString(Len(op.bounds)) \o ", " \o "{"
        r == realize_extents(op, 0, st)
        t == halide_type_to_coli_type_str(op.types[1])
    IN  IF r.err # NoError THEN Raise(Write(st, head \o r.text), r.err)
        ELSE IF t.err # NoError THEN Raise(Write(st, head \o r.text \o "}, "), t.err)
        ELSE [Write(st, head \o r.text \o "}, " \o t.text \o ", NULL, coli::a_temporary, "
                        \o "&" \o st.func \o ");\n")
              EXCEPT !.temporary_buffers = @ \cup {buffer_name}]

visit_Free(st) == Raise(st, UserError("Conversion of Free to COLi is not supported.\n"))
visit_Store(st) ==
    Raise(st, UserError("Should pass the unflatten version of Store to COLi\n.\n"))
visit_Allocate(st) ==
    Raise(st, UserError("Should pass the unflatten version of Allocate to COLi\n.\n"))

-----------------------------------------------------------------------------
(* The inputs: the pipelines a generator is constructed for, and the nodes *)
(* a statement tree is built from.  Names are the host's, before           *)
(* NormalizeVariableName.                                                  *)

PipelineName == "p"

OutputFuncs ==
    { [name |-> "f", extents |-> <<4>>, type |-> Int32],
      [name |-> "f", extents |-> <<4, 2>>, type |-> Int32],
      [name |-> "g", extents |-> <<2>>, type |-> Float32] }

InputImages ==
    { [name |-> "in", extents |-> <<4>>, type |-> Int32],
      [name |-> "in2", extents |-> <<2, 3>>, type |-> UInt8],
      [name |-> "in", extents |-> <<4>>, type |-> Float16] }

RECURSIVE SeqsUpTo(_, _)
SeqsUpTo(S, n) ==
    IF n = 0 THEN {<<>>}
    ELSE LET shorter == SeqsUpTo(S, n - 1)
         IN  shorter \cup {Append(q, x) : q \in shorter, x \in S}

Pipelines ==
    { p \in { [outputs |-> o, inputs |-> i] :
                o \in SeqsUpTo(OutputFuncs, MaxSize), i \in SeqsUpTo(InputImages, MaxSize) } :
        Len(p.outputs) + Len(p.inputs) <= MaxSize }

x_in == Call("in", <<Var("x")>>, "Halide")

ForOps ==
    { [name |-> "x", min |-> Var("f.min.0"), extent |-> Var("f.extent.0")],
      [name |-> "y", min |-> Var("f.min.1"), extent |-> Var("f.extent.1")],
      [name |-> "x", min |-> Var("m"), extent |-> Var("f.extent.0")],
      [name |-> "x", min |-> Var("f.min.0"), extent |-> Var("f.min.0")],
      [name |-> "x", min |-> IntImm(0), extent |-> Var("f.extent.0")],
      [name |-> "x", min |-> Var("f.min.0"), extent |-> Add(Var("f.extent.0"), IntImm(1))] }

LetStmtOps ==
    { [name |-> "m", value |-> IntImm(2)],
      [name |-> "m", value |-> Var("f.extent.0")],
      [name |-> "f.min.0", value |-> IntImm(1)],
      [name |-> "m", value |-> StringImm("s")] }

ProvideOps ==
    { [name |-> "f", args |-> <<Var("x")>>, values |-> <<Add(x_in, IntImm(1))>>],
      [name |-> "f", args |-> <<Var("x")>>, values |-> <<IntImm(1)>>],
      [name |-> "t", args |-> <<Var("x")>>, values |-> <<IntImm(1)>>],
      [name |-> "in", args |-> <<Var("x")>>, values |-> <<IntImm(1)>>],
      [name |-> "f", args |-> <<IntImm(0)>>, values |-> <<IntImm(1)>>],
      [name |-> "f", args |-> <<Var("x")>>, values |-> <<IntImm(1), IntImm(2)>>],
      [name |-> "f", args |-> <<Var("x")>>, values |-> <<StringImm("s")>>],
      [name |-> "f", args |-> <<Var("x")>>,
       values |-> <<Let("k", IntImm(1), Add(Var("k"), Var("x")))>>],
      [name |-> "f", args |-> <<Var("x")>>,
       values |-> <<Call("f", <<Var("x")>>, "Halide")>>],
      [name |-> "f", args |-> <<Var("x")>>,
       values |-> <<Call("in", <<Var("x")>>, "Extern")>>],
      [name |-> "f", args |-> <<Var("x")>>,
       values |-> <<Call("t", <<Var("x")>>, "Halide")>>] }

RealizeOps ==
    { [name |-> "t", types |-> <<Int32>>,
       bounds |-> <<[min |-> IntImm(0), extent |-> IntImm(4)]>>],
      [name |-> "f", types |-> <<Int32>>,
       bounds |-> <<[min |-> IntImm(0), extent |-> IntImm(4)]>>],
      [name |-> "t", types |-> <<Int32, Float32>>,
       bounds |-> <<[min |-> IntImm(0), extent |-> IntImm(4)]>>],
      [name |-> "t", types |-> <<Int32>>,
       bounds |-> <<[min |-> IntImm(1), extent |-> IntImm(4)]>>],
      [name |-> "t", types |-> <<Int32>>,
       bounds |-> <<[min |-> IntImm(0), extent |-> StringImm("s")]>>] }

ProducerConsumerOps ==
    { [name |-> "f", is_producer |-> TRUE, body_is_block |-> FALSE],
      [name |-> "f", is_producer |-> FALSE, body_is_block |-> FALSE],
      [name |-> "in", is_producer |-> TRUE, body_is_block |-> FALSE],
      [name |-> "f", is_producer |-> TRUE, body_is_block |-> TRUE] }

-----------------------------------------------------------------------------
(* The state machine.                                                      *)

\* print(Stmt) still to be run on a subtree: `nest` is the number of For
\* nodes around it, `in_else` whether it lies in an else_case, `not_block`
\* whether its parent has found that it is no Block.
PrintFrame(nest, in_else, not_block) ==
    [op |-> "print", nest |-> nest, in_else |-> in_else, not_block |-> not_block]

Cur ==
    [func |-> func, stream |-> stream, indent |-> indent, scope |-> scope,
     loop_dims |-> loop_dims, output_buffers |-> output_buffers,
     input_buffers |-> input_buffers, temporary_buffers |-> temporary_buffers,
     computation_list |-> computation_list, constant_list |-> constant_list,
     err |-> err]

Install(st) ==
    /\ func' = st.func
    /\ stream' = st.stream
    /\ indent' = st.indent
    /\ scope' = st.scope
    /\ loop_dims' = st.loop_dims
    /\ output_buffers' = st.output_buffers
    /\ input_buffers' = st.input_buffers
    /\ temporary_buffers' = st.temporary_buffers
    /\ computation_list' = st.computation_list
    /\ constant_list' = st.constant_list
    /\ err' = st.err

\* The end-to-end example: one rank-1 output of extent 4, one rank-1 input
\* of extent 4, and a For over the output's bounds around one Provide.
E2E_Pipeline ==
    [outputs |-> <<[name |-> "f", extents |-> <<4>>, type |-> Int32]>>,
     inputs |-> <<[name |-> "in", extents |-> <<4>>, type |-> Int32]>>]
E2E_Nodes ==
    << [kind |-> "For", nest |-> 0, in_else |-> FALSE,
        op |-> normalize_For([name |-> "x", min |-> Var("f.min.0"),
                              extent |-> Var("f.extent.0")])],
       [kind |-> "Provide", nest |-> 1, in_else |-> FALSE,
        op |-> normalize_Provide([name |-> "f", args |-> <<Var("x")>>,
                                  values |-> <<Add(x_in, IntImm(1))>>])] >>

\* `script` is n + 1 when the run is the example's constructor call and
\* its first n nodes, and -1 once the run has left the example.
Follow(node) ==
    IF script >= 1 /\ script <= Len(E2E_Nodes) /\ node = E2E_Nodes[script]
    THEN script + 1
    ELSE -1

\* Nothing constructed yet: every member empty.
Unconstructed ==
    /\ func = ""
    /\ stream = <<>>
    /\ indent = 0
    /\ scope = <<>>
    /\ loop_dims = <<>>
    /\ output_buffers = {}
    /\ input_buffers = {}
    /\ temporary_buffers = {}
    /\ computation_list = {}
    /\ constant_list = {}
    /\ err = NoError
    /\ work = <<>>
    /\ size = 0
    /\ last = [kind |-> "none", op |-> <<>>, nest |-> 0, in_else |-> FALSE]
    /\ script = 0

Init ==
    /\ pc = "start"
    /\ Unconstructed
    /\ call = [fn |-> "none"]

\* The end of a handler that ran on the node on top of `work`: the
\* members it left, and the frames that replace the node's.  An error
\* report ends the run where it is.
Outcome(st) == IF Ok(st) THEN "traverse" ELSE "aborted"

Finish(result, frames) ==
    /\ \E st \in {result} :
           /\ Install(st)
           /\ pc' = Outcome(st)
           /\ work' = IF Ok(st) THEN frames \o Tail(work) ELSE work
    /\ UNCHANGED call

\* A handler entered for a node.
Visit(node, result, frames) ==
    /\ size' = size + 1
    /\ last' = node
    /\ script' = Follow(node)
    /\ Finish(result, frames)

\* The rest of a handler, run when print(op->body) has returned.
Return(result) ==
    /\ UNCHANGED <<size, last, script>>
    /\ Finish(result, <<>>)

\* print_to_coli constructs the generator and calls cg.print(s).
Construct ==
    /\ pc = "start"
    /\ \E p \in Pipelines :
        /\ \E st \in {CodeGen_Coli(PipelineName, p.outputs, p.inputs)} :
               /\ Install(st)
               /\ pc' = Outcome(st)
        /\ work' = <<PrintFrame(0, FALSE, FALSE)>>
        /\ size' = Len(p.outputs) + Len(p.inputs)
        /\ last' = [kind |-> "CodeGen_Coli", op |-> p, nest |-> 0, in_else |-> FALSE]
        /\ script' = IF p = E2E_Pipeline THEN 1 ELSE -1
    /\ UNCHANGED call

\* cg.print(s) has returned: print_to_coli returns and cg is destroyed.
Destroy ==
    /\ pc = "traverse"
    /\ work = <<>>
    /\ Install(Destroy_CodeGen_Coli(Cur))
    /\ pc' = "finalized"
    /\ UNCHANGED <<work, size, last, script, call>>

\* print(Stmt) is about to dispatch on a node.
AtNode ==
    /\ pc = "traverse"
    /\ work # <<>>
    /\ Head(work).op = "print"
    /\ size < MaxSize

Node(kind, op) ==
    [kind |-> kind, op |-> op, nest |-> Head(work).nest, in_else |-> Head(work).in_else]

Child(nest, not_block) == PrintFrame(nest, Head(work).in_else, not_block)

VisitFor(raw) ==
    /\ AtNode
    /\ LET op == normalize_For(raw)
       IN  Visit(Node("For", op), visit_For(op, Cur),
                 <<Child(Head(work).nest + 1, FALSE), [op |-> "exit_For"]>>)

AtFrame(op) ==
    /\ pc = "traverse"
    /\ work # <<>>
    /\ Head(work).op = op

ExitFor ==
    /\ AtFrame("exit_For")
    /\ Return(exit_For(Cur))

\* The frame left for the rest of the handler holds op->name, which
\* scope.pop reads; the value bound and the scope found on entry are kept
\* beside it for the properties only.
VisitLetStmt(raw) ==
    /\ AtNode
    /\ LET op == normalize_LetStmt(raw)
       IN  Visit(Node("LetStmt", op), visit_LetStmt(op, Cur),
                 <<Child(Head(work).nest, FALSE),
                   [op |-> "exit_LetStmt", name |-> op.name, value |-> op.value,
                    scope_then |-> scope]>>)

ExitLetStmt ==
    /\ AtFrame("exit_LetStmt")
    /\ Return(exit_LetStmt(Head(work).name, Cur))

VisitProducerConsumer(op) ==
    /\ AtNode
    /\ Visit(Node("ProducerConsumer", op), visit_ProducerConsumer(op, Cur),
             <<Child(Head(work).nest, TRUE),
               [op |-> "exit_ProducerConsumer", old_loop_dims |-> loop_dims]>>)

ExitProducerConsumer ==
    /\ AtFrame("exit_ProducerConsumer")
    /\ Return(exit_ProducerConsumer(Head(work).old_loop_dims, Cur))

VisitRealize(raw) ==
    /\ AtNode
    /\ LET op == normalize_Realize(raw)
       IN  Visit(Node("Realize", op), visit_Realize(op, Cur), <<Child(Head(work).nest, FALSE)>>)

VisitProvide(raw) ==
    /\ AtNode
    /\ LET op == normalize_Provide(raw)
       IN  Visit(Node("Provide", op), visit_Provide(op, Cur), <<>>)

\* visit(const Block *): first, then rest if it is defined
block_children(has_rest) ==
    IF has_rest
    THEN <<Child(Head(work).nest, FALSE), Child(Head(work).nest, FALSE)>>
    ELSE <<Child(Head(work).nest, FALSE)>>

VisitBlock(has_rest) ==
    /\ AtNode
    /\ ~Head(work).not_block
    /\ Visit(Node("Block", [has_rest |-> has_rest]), Cur, block_children(has_rest))

\* A conditional handler that also prints the else case when there is one.
if_then_else_children_both(has_else) ==
    IF has_else
    THEN <<Child(Head(work).nest, FALSE), PrintFrame(Head(work).nest, TRUE, FALSE)>>
    ELSE <<Child(Head(work).nest, FALSE)>>

\* visit(const IfThenElse *): print(op->then_case), and nothing else
if_then_else_children(has_else) == <<Child(Head(work).nest, FALSE)>>

VisitIfThenElse(has_else) ==
    /\ AtNode
    /\ Visit(Node("IfThenElse", [has_else |-> has_else]), Cur,
             if_then_else_children(has_else))

\* visit(const Evaluate *): nothing
VisitEvaluate ==
    /\ AtNode
    /\ Visit(Node("Evaluate", <<>>), Cur, <<>>)

\* visit(const AssertStmt *): nothing
VisitAssertStmt ==
    /\ AtNode
    /\ Visit(Node("AssertStmt", <<>>), Cur, <<>>)

VisitFree ==
    /\ AtNode
    /\ Visit(Node("Free", <<>>), visit_Free(Cur), <<>>)

VisitStore ==
    /\ AtNode
    /\ Visit(Node("Store", <<>>), visit_Store(Cur), <<>>)

VisitAllocate ==
    /\ AtNode
    /\ Visit(Node("Allocate", <<>>), visit_Allocate(Cur), <<>>)

Next ==
    \/ Construct
    \/ Destroy
    \/ \E op \in ForOps : VisitFor(op)
    \/ ExitFor
    \/ \E op \in LetStmtOps : VisitLetStmt(op)
    \/ ExitLetStmt
    \/ \E op \in ProducerConsumerOps : VisitProducerConsumer(op)
    \/ ExitProducerConsumer
    \/ \E op \in RealizeOps : VisitRealize(op)
    \/ \E op \in ProvideOps : VisitProvide(op)
    \/ \E has_rest \in BOOLEAN : VisitBlock(has_rest)
    \/ \E has_else \in BOOLEAN : VisitIfThenElse(has_else)
    \/ VisitEvaluate
    \/ VisitAssertStmt
    \/ VisitFree
    \/ VisitStore
    \/ VisitAllocate

Spec == Init /\ [][Next]_vars

-----------------------------------------------------------------------------
(* print_name called on its own, on every identifier over an alphabet that *)
(* holds a lower-case and an upper-case letter, a digit, '_', '.', '$' and *)
(* two other punctuation characters; then called again on its result.      *)

NameAlphabet == {"a", "Z", "7", "_", ".", "$", "-", " "}

RECURSIVE Identifiers(_)
Identifiers(n) ==
    IF n = 0 THEN {""}
    ELSE LET shorter == Identifiers(n - 1)
         IN  shorter \cup {s \o c : s \in shorter, c \in NameAlphabet}

InitName ==
    /\ pc = "call"
    /\ Unconstructed
    /\ call \in {[fn |-> "print_name", name |-> n, calls |-> 0, once |-> "", twice |-> ""] :
                    n \in Identifiers(MaxNameLen)}

CallPrintName ==
    /\ call.fn = "print_name"
    /\ call.calls = 0
    /\ call' = [call EXCEPT !.calls = 1, !.once = print_name(call.name)]
    /\ UNCHANGED cgVars

CallPrintNameAgain ==
    /\ call.fn = "print_name"
    /\ call.calls = 1
    /\ call' = [call EXCEPT !.calls = 2, !.twice = print_name(call.once)]
    /\ UNCHANGED cgVars

NextName == CallPrintName \/ CallPrintNameAgain

SpecName == InitName /\ [][NextName]_vars

-----------------------------------------------------------------------------
(* The loop-dimension stack on its own: push_loop_dim and pop_loop_dim in  *)
(* any order, and get_loop_bound_vars called on whatever the stack holds.  *)

DimNames == {"x", "y"}
DimMins == {IntImm(0), Var("a"), Add(Var("a"), IntImm(1))}
DimExtents == {IntImm(4), Var("b")}

InitLoopDims ==
    /\ pc = "call"
    /\ Unconstructed
    /\ call = [fn |-> "get_loop_bound_vars", returned |-> FALSE, exprs |-> <<>>, text |-> ""]

NotReturned == [call EXCEPT !.returned = FALSE, !.exprs = <<>>, !.text = ""]

CallPushLoopDim(name, min, extent) ==
    /\ call.fn = "get_loop_bound_vars"
    /\ Len(loop_dims) < MaxDims
    /\ loop_dims' = push_loop_dim(Cur, name, min, extent).loop_dims
    /\ call' = NotReturned
    /\ UNCHANGED <<pc, func, stream, indent, scope, output_buffers, input_buffers,
                   temporary_buffers, computation_list, constant_list, err, work, size,
                   last, script>>

CallPopLoopDim ==
    /\ call.fn = "get_loop_bound_vars"
    /\ loop_dims # <<>>
    /\ loop_dims' = pop_loop_dim(Cur).loop_dims
    /\ call' = NotReturned
    /\ UNCHANGED <<pc, func, stream, indent, scope, output_buffers, input_buffers,
                   temporary_buffers, computation_list, constant_list, err, work, size,
                   last, script>>

CallGetLoopBoundVars ==
    /\ call.fn = "get_loop_bound_vars"
    /\ ~call.returned
    /\ call' = [call EXCEPT !.returned = TRUE,
                            !.exprs = loop_bound_exprs(loop_dims),
                            !.text = get_loop_bound_vars(loop_dims)]
    /\ UNCHANGED cgVars

NextLoopDims ==
    \/ \E name \in DimNames, min \in DimMins, extent \in DimExtents :
           CallPushLoopDim(name, min, extent)
    \/ CallPopLoopDim
    \/ CallGetLoopBoundVars

SpecLoopDims == InitLoopDims /\ [][NextLoopDims]_vars

-----------------------------------------------------------------------------
(* The bounds of a For on their own: the generator is constructed with no  *)
(* buffers, visit(LetStmt) is entered for up to MaxLets statements nested  *)
(* in one another, and visit(For) is entered in the innermost body.  The   *)
(* lets bind chains of names: a to b, b to c, c to d, d to a literal.      *)

ScopeLets ==
    { [name |-> "a", value |-> Var("b")],
      [name |-> "b", value |-> Var("c")],
      [name |-> "b", value |-> IntImm(5)],
      [name |-> "c", value |-> Var("d")],
      [name |-> "c", value |-> IntImm(6)],
      [name |-> "d", value |-> IntImm(7)] }

ScopeFors ==
    { [name |-> "x", min |-> Var(n), extent |-> Var(e)] :
          n \in {"a", "b", "c", "d"}, e \in {"c", "d"} }

InitForBounds ==
    /\ pc = "call"
    /\ Unconstructed
    /\ call = [fn |-> "visit_For", constructed |-> FALSE, lets |-> 0, done |-> FALSE,
               resolved |-> FALSE, op |-> <<>>, replacements |-> <<>>,
               min_val |-> IntImm(0), extent_val |-> IntImm(0)]

CallConstruct ==
    /\ call.fn = "visit_For"
    /\ ~call.constructed
    /\ Install(CodeGen_Coli(PipelineName, <<>>, <<>>))
    /\ call' = [call EXCEPT !.constructed = TRUE]
    /\ UNCHANGED <<pc, work, size, last, script>>

CallVisitLetStmt(raw) ==
    /\ call.fn = "visit_For"
    /\ call.constructed
    /\ ~call.done
    /\ call.lets < MaxLets
    /\ Install(visit_LetStmt(normalize_LetStmt(raw), Cur))
    /\ call' = [call EXCEPT !.lets = @ + 1]
    /\ UNCHANGED <<pc, work, size, last, script>>

\* visit(For) entered; the map and the two values it computed are kept in
\* `call` when both lookups succeeded.
CallVisitFor(raw) ==
    /\ call.fn = "visit_For"
    /\ call.constructed
    /\ ~call.done
    /\ LET op == normalize_For(raw)
           bound == /\ scope_contains(scope, op.min.name)
                    /\ scope_contains(scope, op.extent.name)
           replacements == for_replacements(scope, op.min.name, op.extent.name)
       IN  /\ Install(visit_For(op, Cur))
           /\ call' = IF bound
                      THEN [call EXCEPT !.done = TRUE, !.resolved = TRUE, !.op = op,
                                        !.replacements = replacements,
                                        !.min_val = substitute_twice(replacements,
                                                        scope_get(scope, op.min.name)),
                                        !.extent_val = substitute_twice(replacements,
                                                        scope_get(scope, op.extent.name))]
                      ELSE [call EXCEPT !.done = TRUE, !.op = op]
    /\ UNCHANGED <<pc, work, size, last, script>>

NextForBounds ==
    \/ CallConstruct
    \/ \E raw \in ScopeLets : CallVisitLetStmt(raw)
    \/ \E raw \in ScopeFors : CallVisitFor(raw)

SpecForBounds == InitForBounds /\ [][NextForBounds]_vars

-----------------------------------------------------------------------------
(* The properties.                                                         *)

IsPrefix(p, s) == Len(p) <= Len(s) /\ SubSeq(s, 1, Len(p)) = p

RECURSIVE Join(_, _)
Join(items, sep) ==
    IF items = <<>> THEN ""
    ELSE IF Len(items) = 1 THEN items[1]
    ELSE items[1] \o sep \o Join(Tail(items), sep)

\* A step that enters the handler of a statement node of the given kind.
Enters(kind) == size' = size + 1 /\ last'.kind = kind

\* The members of the generator, as one tuple.
members ==
    <<func, stream, indent, scope, loop_dims, output_buffers, input_buffers,
      temporary_buffers, computation_list, constant_list, err>>

\* C1: while a tree is traversed, the loop-dimension stack is as deep as the
\* number of For nodes around the node that print is about to visit; the
\* stack is empty when the constructor has returned, whatever inputs it
\* declared, and empty again when the print of the root has returned.
C1_StackDepthIsForNesting ==
    /\ (pc = "traverse" /\ last.kind = "CodeGen_Coli") => loop_dims = <<>>
    /\ (pc = "traverse" /\ work # <<>> /\ Head(work).op = "print")
           => Len(loop_dims) = Head(work).nest
    /\ (pc = "traverse" /\ work = <<>>) => loop_dims = <<>>
    /\ pc = "finalized" => loop_dims = <<>>

\* A node two For loops deep, in a run whose constructor declared a
\* rank-2 input.
C1_Witness ==
    /\ pc = "traverse"
    /\ work # <<>>
    /\ Head(work).op = "print"
    /\ Head(work).nest = 2
    /\ Len(loop_dims) = 2
    /\ "buff_in2" \in input_buffers

DuplicateComputation == "Duplicate computation is not currently supported.\n"

\* C2: a Provide whose name is already in the computation list (put there
\* by an earlier Provide, or by the constructor for an input) stops the run
\* with the duplicate-computation report, writes nothing and leaves the
\* list as it was; a Provide that completes has its name in the list.
C2_SecondProvideAborts ==
    [][ Enters("Provide") =>
          IF last'.op.name \in computation_list
          THEN /\ pc' = "aborted"
               /\ err'.msg = DuplicateComputation
               /\ stream' = stream
               /\ computation_list' = computation_list
          ELSE pc' = "traverse" =>
                  /\ computation_list' = computation_list \cup {last'.op.name}
                  /\ stream' # stream ]_vars

\* The second Provide of f, stopped; f is no input, so the first one put
\* the name in the list.
C2_Witness ==
    /\ pc = "aborted"
    /\ err.msg = DuplicateComputation
    /\ last.kind = "Provide"
    /\ last.op.name = "f"
    /\ "f" \in computation_list
    /\ "buff_f" \in output_buffers

\* C3: a For whose min or extent is no Variable stops the run with a report
\* of the internal tier, before any constant is written or registered for
\* the loop and before the body is printed.
C3_NonVariableBoundIsInternal ==
    [][ ( /\ Enters("For")
          /\ \/ last'.op.min.node # "Variable"
             \/ last'.op.extent.node # "Variable" )
        => /\ pc' = "aborted"
           /\ err'.tier = "internal"
           /\ err'.msg \in {"Min value of a loop should have been a variable.\n",
                            "Extent of a loop should have been a variable.\n"}
           /\ stream' = stream
           /\ constant_list' = constant_list
           /\ scope' = scope
           /\ work' = work ]_vars

\* A For with a variable as min and a sum as extent, stopped.
C3_Witness ==
    /\ pc = "aborted"
    /\ last.kind = "For"
    /\ last.op.min.node = "Variable"
    /\ last.op.extent.node = "Add"
    /\ err.tier = "internal"

\* The chunks the destructor writes after the blank line.
IsEpilogueChunk(f, c) ==
    \/ IsPrefix(Spaces(tab_size) \o f \o ".set_arguments(", c)
    \/ c \in { Spaces(tab_size) \o f \o t :
                 t \in {".gen_isl_ast();\n", ".gen_halide_stmt();\n",
                        ".dump_halide_stmt();\n",
                        ".gen_halide_obj(\"build/generated_" \o f \o "_test.o\");\n"} }
    \/ c = "}\n\n"

\* C4: a run that reports an error stops at the node that reported it: its
\* stream holds no chunk of the epilogue, and once stopped neither the
\* stream nor anything else changes; a Provide with a StringImm in a value
\* and a Realize with one in an extent stop the run.
C4_NoOutputAfterFailure ==
    [][ /\ err' # NoError =>
              /\ pc' = "aborted"
              /\ \A i \in 1..Len(stream') : ~IsEpilogueChunk(func', stream'[i])
        /\ pc = "aborted" => UNCHANGED vars
        /\ pc' = "finalized" => err' = NoError
        /\ ( /\ Enters("Provide")
             /\ \E i \in 1..Len(last'.op.values) : HasNode(last'.op.values[i], "StringImm") )
           => pc' = "aborted" /\ err' # NoError
        /\ ( /\ Enters("Realize")
             /\ \E i \in 1..Len(last'.op.bounds) :
                    HasNode(last'.op.bounds[i].extent, "StringImm") )
           => pc' = "aborted" /\ err' # NoError ]_vars

\* A Provide stopped by the StringImm it stores, after the head of its
\* computation was written.
C4_Witness ==
    /\ pc = "aborted"
    /\ err.msg = "Conversion of StringImm to COLi is not supported.\n"
    /\ last.kind = "Provide"
    /\ Len(stream) > 0
    /\ IsPrefix(Spaces(tab_size) \o "coli::computation f(", stream[Len(stream) - 2])

\* The epilogue of a run, built from the buffer sets alone.
ExpectedArguments ==
    LET bufs == Iterate(output_buffers) \o Iterate(input_buffers)
    IN  Join([i \in 1..Len(bufs) |-> "&" \o bufs[i]], ", ")

ExpectedEpilogue ==
    << "\n",
       "    " \o func \o ".set_arguments({" \o ExpectedArguments \o "});\n",
       "    " \o func \o ".gen_isl_ast();\n",
       "    " \o func \o ".gen_halide_stmt();\n",
       "    " \o func \o ".dump_halide_stmt();\n",
       "    " \o func \o ".gen_halide_obj(\"build/generated_" \o func \o "_test.o\");\n",
       "}\n\n" >>

\* C5: the stream of a finalized run ends with one set_arguments call that
\* lists the output buffers, then the input buffers, separated by ", " and
\* with no temporary buffer, then gen_isl_ast, gen_halide_stmt,
\* dump_halide_stmt and gen_halide_obj, then the closing brace; no chunk of
\* the epilogue occurs before that.
C5_EpilogueOnceAtEnd ==
    pc = "finalized" =>
        LET n == Len(stream)
        IN  /\ n >= Len(ExpectedEpilogue)
            /\ SubSeq(stream, n - Len(ExpectedEpilogue) + 1, n) = ExpectedEpilogue
            /\ \A i \in 1..(n - Len(ExpectedEpilogue)) : ~IsEpilogueChunk(func, stream[i])
            /\ \A t \in temporary_buffers \ (output_buffers \cup input_buffers) :
                   \A k \in 1..Len(ExpectedArguments) :
                       ~IsPrefix("&" \o t, SubSeq(ExpectedArguments, k, Len(ExpectedArguments)))

\* A finalized run with an output, an input and a temporary buffer.
C5_Witness ==
    /\ pc = "finalized"
    /\ output_buffers # {}
    /\ input_buffers # {}
    /\ temporary_buffers # {}

\* The text of the end-to-end example.
E2E_Stream ==
    << headers \o "\n\n",
       "using namespace coli;\n\n",
       "int main(int argc, char **argv)\n",
       "{\n",
       "    // Set default coli options.\n",
       "    global::set_default_coli_options();\n\n",
       "    coli::function p(\"p\");\n",
       "    coli::buffer buff_f(\"buff_f\", 1, {coli::expr(4)}, coli::p_int32, NULL, coli::a_output, &p);\n",
       "    coli::buffer buff_in(\"buff_in\", 1, {coli::expr(4)}, coli::p_int32, NULL, coli::a_input, &p);\n",
       "    coli::computation in(\"{in[i0]: (0 <= i0 < 0 + 4)}\", expr(), false, coli::p_int32, &p);\n",
       "    in.set_access(\"{in[i0]->buff_in[i0]}\");\n",
       "\n",
       "    // Define loop bounds for dimension \"_x\".\n",
       "    coli::constant _f_min_0(\"_f_min_0\", coli::expr((int32_t)0), coli::p_int32, true, NULL, 0, &p);\n",
       "    coli::constant _f_extent_0(\"_f_extent_0\", coli::expr((int32_t)4), coli::p_int32, true, NULL, 0, &p);\n",
       "\n",
       "    coli::computation f(\"[_f_min_0, _f_extent_0]->{f[_x]: \"\n",
       "                        \"(_f_min_0 <= _x < _f_min_0 + _f_extent_0)}\", \n",
       "                        (in(coli::idx(\"_x\")) + coli::expr((int32_t)1)), true, coli::p_int32, &p);\n",
       "    f.set_access(\"{f[_x]->buff_f[_x]}\");\n",
       "\n",
       "    p.set_arguments({&buff_f, &buff_in});\n",
       "    p.gen_isl_ast();\n",
       "    p.gen_halide_stmt();\n",
       "    p.dump_halide_stmt();\n",
       "    p.gen_halide_obj(\"build/generated_p_test.o\");\n",
       "}\n\n" >>

\* C6: the run of the example (output f and input in, both of rank 1 and
\* extent 4, and a For over f's min and extent around f(x) = in(x) + 1)
\* reports no error, and when finalized its stream is the two buffer
\* declarations, the computation of in bound to buff_in, the constants of
\* the loop's min (0) and extent (4), the computation of f with the sum
\* printed infix, and the four finalization calls in order.
C6_EndToEnd ==
    /\ script >= 1 => err = NoError
    /\ (script = Len(E2E_Nodes) + 1 /\ pc = "finalized") => stream = E2E_Stream

\* The example, finalized.
C6_Witness == script = Len(E2E_Nodes) + 1 /\ pc = "finalized"

\* C7: the handler of an IfThenElse, with or without an else case, leaves
\* every member of the generator as it was, reports nothing and hands
\* only the then case to print; no node of an else case is ever visited.
C7_ElseBranchNeverVisited ==
    [][ /\ Enters("IfThenElse") =>
              /\ UNCHANGED members
              /\ pc' = "traverse"
              /\ work' = <<PrintFrame(Head(work).nest, FALSE, FALSE)>> \o Tail(work)
        /\ \A i \in 1..Len(work') : work'[i].op = "print" => ~work'[i].in_else
        /\ ~last'.in_else ]_vars

\* An IfThenElse with an else case, just handled.
C7_Witness ==
    /\ pc = "traverse"
    /\ last.kind = "IfThenElse"
    /\ last.op.has_else
    /\ Len(work) = 1

\* The bounds of the stack, outermost dimension first, min before extent.
Bounds(dims) ==
    [k \in 1..(2 * Len(dims)) |->
        IF k % 2 = 1 THEN dims[(k + 1) \div 2].min ELSE dims[k \div 2].extent]

Literal(e) == e.node \in {"IntImm", "StringImm"}

\* C8: get_loop_bound_vars collects exactly the mins and extents of the
\* stack that are no literals, outermost dimension first and the min of a
\* dimension before its extent; it returns the empty string when the
\* stack is empty or every bound is a literal.
C8_BoundVarsInPushOrder ==
    (call.fn = "get_loop_bound_vars" /\ call.returned) =>
        /\ call.exprs = SelectSeq(Bounds(loop_dims), LAMBDA e : ~Literal(e))
        /\ (\A k \in 1..(2 * Len(loop_dims)) : Literal(Bounds(loop_dims)[k]))
               => call.exprs = <<>> /\ call.text = ""
        /\ call.exprs # <<>>
               => call.text = "[" \o Join([k \in 1..Len(call.exprs) |->
                                              ExprToString(call.exprs[k])], ", ") \o "]"

\* Two dimensions, the outer with a variable min and a literal extent, the
\* inner with a literal min and a variable extent.
C8_Witness ==
    /\ call.fn = "get_loop_bound_vars"
    /\ call.returned
    /\ Len(loop_dims) = 2
    /\ loop_dims[1].min = Var("a") /\ Literal(loop_dims[1].extent)
    /\ Literal(loop_dims[2].min) /\ loop_dims[2].extent = Var("b")
    /\ call.exprs = <<Var("a"), Var("b")>>

\* The length of what the sanitizer writes for one character, and the
\* place in the result where the text of character i (from 1) starts.
Width(c) ==
    IF c = "$" THEN 2
    ELSE IF c \in Lower \cup Upper \cup Digit \cup {"_", "."} THEN 1
    ELSE 3

RECURSIVE Offset(_, _)
Offset(name, i) ==
    IF i = 1
    THEN (IF name # "" /\ SubSeq(name, 1, 1) \in Lower \cup Upper THEN 1 ELSE 0)
    ELSE Offset(name, i - 1) + Width(SubSeq(name, i - 1, i - 1))

\* C9: print_name applied to its own result returns that result; each '.'
\* of the name is one '_' and each '$' is '__' at its place in the result.
C9_SanitizerIdempotent ==
    call.fn = "print_name" =>
        /\ call.calls >= 1 =>
              /\ Len(call.once) = Offset(call.name, Len(call.name) + 1)
              /\ \A i \in 1..Len(call.name) :
                    LET c == SubSeq(call.name, i, i)
                        at == Offset(call.name, i)
                    IN  /\ c = "." => SubSeq(call.once, at + 1, at + 1) = "_"
                        /\ c = "$" => SubSeq(call.once, at + 1, at + 2) = "__"
        /\ call.calls = 2 => call.twice = call.once

\* A name with a letter, a '.' and a '$', sanitized twice.
C9_Witness ==
    /\ call.fn = "print_name"
    /\ call.calls = 2
    /\ call.name = "a.$"
    /\ call.once = "_a___"

\* C10: duplicate buffer, computation and constant declarations and
\* malformed stores (an index that is no variable, more than one value, a
\* destination with no buffer) are reported in the user tier; the internal
\* tier reports only a Let expression met after inlining, a For bound that
\* is no variable and the lookup of an unbound name.
C10_ErrorTiers ==
    /\ err.msg \in {DuplicateComputation,
                    "Duplicate allocation (i.e. duplicate compute) is not currently supported.\n",
                    "Redefinition of lets is not supported right now.\n",
                    "Expect args of provide to be loop dims for now (doesn't currently handle update).\n",
                    "Expect 1D store (no tuple) in the Provide node for now.\n",
                    "The buffer should have been allocated previously.\n"}
          => err.tier = "user"
    /\ err.tier = "internal"
          => \/ err.msg = "Should not have encountered Let expr since we've called substitute_in_all_lets.\n"
             \/ err.msg \in {"Min value of a loop should have been a variable.\n",
                             "Extent of a loop should have been a variable.\n"}
             \/ IsPrefix("Symbol '", err.msg)

\* A chunk that begins the declaration of the buffer of the given name:
\* the constructor writes it at one indentation, Realize at two.
IsBufferDecl(c, b) ==
    \E k \in {1, 2} : IsPrefix(Spaces(k * tab_size) \o "coli::buffer " \o b \o "(", c)

BufferDecls(b) == {i \in 1..Len(stream) : IsBufferDecl(stream[i], b)}

\* C11: no buffer name is declared twice in one run, whether the repeat
\* comes from two outputs, two inputs, an output and an input, or a Realize
\* of a name that an output, an input or a temporary already has; and the
\* three sets of buffer names are disjoint.
C11_BufferDeclaredOnce ==
    /\ \A i \in 1..Len(BufferOrder) : Cardinality(BufferDecls(BufferOrder[i])) <= 1
    /\ output_buffers \cap input_buffers = {}
    /\ output_buffers \cap temporary_buffers = {}
    /\ input_buffers \cap temporary_buffers = {}

\* A chunk that begins the declaration of the constant of the given name.
ConstantDeclHead == Spaces(tab_size) \o "coli::constant "
IsConstantDecl(c, n) == IsPrefix(ConstantDeclHead \o n \o "(", c)

ConstantDecls(s, n) == {i \in 1..Len(s) : IsConstantDecl(s[i], n)}

\* The names a For of the model can declare a constant for.
ForBoundNames ==
    {e.name : e \in {b \in {normalize_For(op).min : op \in ForOps}
                           \cup {normalize_For(op).extent : op \in ForOps} :
                        b.node = "Variable"}}

\* C12: the constant list only grows; every name in it has exactly one
\* declaration in the stream and no name has two; a For whose min or
\* extent variable is already in the list, or whose min and extent are the
\* same variable, stops the run.
C12_ConstantDeclaredOnce ==
    [][ /\ constant_list \subseteq constant_list'
        /\ (stream' # stream \/ constant_list' # constant_list) =>
              \A n \in ForBoundNames \cup constant_list' :
                  LET decls == Cardinality(ConstantDecls(stream', n))
                  IN  IF n \in constant_list' THEN decls = 1 ELSE decls <= 1
        /\ ( /\ Enters("For")
             /\ last'.op.min.node = "Variable"
             /\ last'.op.extent.node = "Variable"
             /\ \/ last'.op.min.name \in constant_list
                \/ last'.op.extent.name \in constant_list
                \/ last'.op.min.name = last'.op.extent.name )
           => /\ pc' = "aborted"
              /\ constant_list' \subseteq constant_list \cup {last'.op.min.name} ]_vars

\* A For nested in a For over the same min variable, stopped by the
\* redefinition of the constant the outer loop declared.
C12_Witness ==
    /\ pc = "aborted"
    /\ err.msg = "Redefinition of lets is not supported right now.\n"
    /\ last.kind = "For"
    /\ Len(loop_dims) = 2
    /\ loop_dims[1].min = loop_dims[2].min
    /\ last.op.min.name \in constant_list
    /\ Cardinality(ConstantDecls(stream, last.op.min.name)) = 1

\* The pending LetStmt handlers, innermost first.
PendingLets(w) == SelectSeq(w, LAMBDA f : f.op = "exit_LetStmt")

\* The expression a name stands for in a scope.
Resolve(sc, n) == sc[n][Len(sc[n])]

\* C13: entering a LetStmt makes its name stand for its value and changes
\* no other name; inside the body of any number of nested LetStmts each
\* bound name stands for the value of the innermost LetStmt that binds it;
\* when the handler returns, the scope is the one it found on entry; no
\* other handler changes the scope.
C13_LetStmtRestoresScope ==
    [][ /\ Enters("LetStmt") =>
              /\ pc' = "traverse"
              /\ DOMAIN scope' = DOMAIN scope \cup {last'.op.name}
              /\ Resolve(scope', last'.op.name) = last'.op.value
              /\ \A n \in DOMAIN scope \ {last'.op.name} :
                     Resolve(scope', n) = Resolve(scope, n)
        /\ AtFrame("exit_LetStmt") =>
              /\ scope' = Head(work).scope_then
              /\ work' = Tail(work)
        /\ pc' = "traverse" =>
              \A i \in 1..Len(PendingLets(work')) :
                  (\A j \in 1..(i - 1) : PendingLets(work')[j].name # PendingLets(work')[i].name)
                      => Resolve(scope', PendingLets(work')[i].name) = PendingLets(work')[i].value
        /\ (pc = "traverse" /\ ~Enters("LetStmt") /\ ~AtFrame("exit_LetStmt"))
              => scope' = scope ]_vars

\* A LetStmt of m inside a LetStmt of m, returned: the outer handler is
\* about to return and m stands for the outer value again.
C13_Witness ==
    /\ pc = "traverse"
    /\ Len(work) = 1
    /\ Head(work).op = "exit_LetStmt"
    /\ Head(work).value = IntImm(2)
    /\ size = 3
    /\ last.kind = "Evaluate"
    /\ last.nest = 0
    /\ scope = scope_push(Head(work).scope_then, "_m", IntImm(2))

\* C14: the replacements a For builds hold the binding of every name of
\* the scope other than its min variable and its extent variable, and
\* hold no entry for either of the two.
C14_ReplacementsExcludeOwnBounds ==
    (call.fn = "visit_For" /\ call.resolved) =>
        /\ DOMAIN call.replacements
              = DOMAIN scope \ {call.op.min.name, call.op.extent.name}
        /\ \A n \in DOMAIN scope \ {call.op.min.name, call.op.extent.name} :
              n \in DOMAIN call.replacements
                  /\ call.replacements[n] = Resolve(scope, n)

\* The number of bound names between an expression and the literal it
\* leads to in a scope: 0 for a literal, -1 when no literal is reached.
RECURSIVE Levels(_, _, _)
Levels(sc, e, fuel) ==
    IF e.node = "IntImm" THEN 0
    ELSE IF e.node = "Variable" /\ e.name \in DOMAIN sc /\ fuel > 0
    THEN LET r == Levels(sc, Resolve(sc, e.name), fuel - 1)
         IN  IF r < 0 THEN -1 ELSE r + 1
    ELSE -1

RECURSIVE VarsOf(_)
VarsOf(e) ==
    CASE e.node = "Variable" -> {e.name}
      [] e.node = "Add" -> VarsOf(e.a) \cup VarsOf(e.b)
      [] e.node = "Call" -> UNION {VarsOf(e.args[i]) : i \in 1..Len(e.args)}
      [] e.node = "Let" -> VarsOf(e.value) \cup VarsOf(e.body)
      [] e.node = "Cast" -> VarsOf(e.value)
      [] OTHER -> {}

\* The declaration of a constant with the given printed value.
ConstantDeclOf(n, printed) ==
    Spaces(tab_size) \o "coli::constant " \o n \o "(\"" \o n \o "\", " \o printed
    \o ", coli::p_int32, true, NULL, 0, &" \o func \o ");\n"

\* C15: a For takes the value bound to its min variable (and to its extent
\* variable) and substitutes the scope into it twice.  When the value
\* leads to a literal through at most two bound names, the declared
\* constant is that literal and names no bound variable; when the chain
\* is longer, the declared constant is still a variable bound in the scope.
C15_TwoPassesNoFixedPoint ==
    (call.fn = "visit_For" /\ call.resolved) =>
        LET min_name == call.op.min.name
            k == Levels(scope, Resolve(scope, min_name), MaxLets + 1)
            ke == Levels(scope, Resolve(scope, call.op.extent.name), MaxLets + 1)
            decls == ConstantDecls(stream, min_name)
        IN  /\ Cardinality(decls) = 1
            /\ (k >= 0 /\ k <= 2) =>
                  /\ VarsOf(call.min_val) \cap DOMAIN scope = {}
                  /\ \E v \in 0..9 : \A i \in decls :
                        stream[i] = ConstantDeclOf(min_name,
                                        "coli::expr((int32_t)" \o ToString(v) \o ")")
            /\ k > 2 =>
                  /\ VarsOf(call.min_val) \cap DOMAIN scope # {}
                  /\ \E n \in DOMAIN scope : \A i \in decls :
                        stream[i] = ConstantDeclOf(min_name, "coli::idx(\"" \o n \o "\")")
            /\ (ke >= 0 /\ ke <= 2) => VarsOf(call.extent_val) \cap DOMAIN scope = {}
            /\ ke > 2 => VarsOf(call.extent_val) \cap DOMAIN scope # {}

\* The chain a -> b -> c -> d -> 7 and a For from a: the constant declared
\* for a is the variable d.
C15_Witness ==
    /\ call.fn = "visit_For"
    /\ call.resolved
    /\ call.op.min.name = "_a"
    /\ Levels(scope, Resolve(scope, "_a"), MaxLets + 1) = 3
    /\ call.min_val = Var("_d")
    /\ err = NoError

\* The Call that print reaches first in a value of the model: the value
\* itself, or the left operand of a sum.
LeadsWithCall(e) == e.node = "Call" \/ (e.node = "Add" /\ e.a.node = "Call")
LeadingCall(e) == IF e.node = "Call" THEN e ELSE e.a
BeforeLeadingCall(e) == IF e.node = "Call" THEN "" ELSE "("

UnknownComputation == "Call to computation that does not exist.\n"

\* C16: when a Provide has written the head of its computation and prints
\* a value that leads with a call of a Halide func or an image, the call
\* is written only if its name is in the computation list at that moment;
\* if it is not, the run stops with the unknown-computation report, the
\* call is not written and the Provide's name is not registered.  So a
\* Provide whose value calls its own name stops, as does a call of a name
\* whose Provide has not run yet.  A call of any other kind is never
\* written.
C16_CallOnlyIfRegistered ==
    [][ ( /\ Enters("Provide")
          /\ stream' # stream
          /\ LeadsWithCall(last'.op.values[1]) )
        => LET e == last'.op.values[1]
               c == LeadingCall(e)
               written == stream'[Len(stream) + 3]
               upto == Spaces(6 * tab_size) \o BeforeLeadingCall(e)
           IN  /\ Len(stream') = Len(stream) + 3 \/ Len(stream') = Len(stream) + 4
               /\ IsPrefix(upto \o c.name \o "(", written)
                     => c.name \in computation_list /\ CallTypeSupported(c)
               /\ (CallTypeSupported(c) /\ c.name \in computation_list)
                     => IsPrefix(upto \o c.name \o "(", written)
               /\ (CallTypeSupported(c) /\ c.name \notin computation_list)
                     => /\ pc' = "aborted"
                        /\ err'.msg = UnknownComputation
                        /\ written = upto
                        /\ computation_list' = computation_list
               /\ ~CallTypeSupported(c) => pc' = "aborted" /\ written = upto ]_vars

\* The Provide f(x) = f(x) under output f, stopped at the call: f was not
\* in the computation list when its value was printed.
C16_Witness ==
    /\ pc = "aborted"
    /\ err.msg = UnknownComputation
    /\ last.kind = "Provide"
    /\ last.op.name = "f"
    /\ last.op.values[1].node = "Call"
    /\ last.op.values[1].name = "f"
    /\ "buff_f" \in output_buffers
    /\ "f" \notin computation_list

====
